---- MODULE Spec2Model ----
(***************************************************************************)
(* Model of the candy-store backend (backend/main.py, backend/models.py)   *)
(* and of the chat-bot order handler (bot/bot.py).                         *)
(*                                                                         *)
(* Text that the code processes character by character (strip, split,      *)
(* isdigit, json.loads, str, join) is a sequence of one-character strings. *)
(* Text that the code only stores or compares is a TLA+ string.            *)
(* A Python Optional is a sequence of length 0 (None) or 1 (the value).    *)
(***************************************************************************)
EXTENDS Integers, Sequences, FiniteSets, TLC

\* ------------------------------------------------------------------ bounds
MaxTime == 8
MaxSessions == 2
MaxProducts == 2
MaxOrders == 1
NumWorkers == 2

\* ------------------------------------------------------- program constants
SessionDays == 7
AccessDeniedStatus == 403

\* ---------------------------------------------------------- Python values
None == <<>>
Some(v) == <<v>>
IsNone(o) == Len(o) = 0
OrElse(o, d) == IF Len(o) = 0 THEN d ELSE o[1]

Range(s) == {s[i] : i \in 1..Len(s)}

DigitChars == {"0", "1", "2", "3", "4", "5", "6", "7", "8", "9"}

DigitVal(c) ==
    CASE c = "0" -> 0 [] c = "1" -> 1 [] c = "2" -> 2 [] c = "3" -> 3
      [] c = "4" -> 4 [] c = "5" -> 5 [] c = "6" -> 6 [] c = "7" -> 7
      [] c = "8" -> 8 [] c = "9" -> 9

DigitChar(d) ==
    CASE d = 0 -> "0" [] d = 1 -> "1" [] d = 2 -> "2" [] d = 3 -> "3"
      [] d = 4 -> "4" [] d = 5 -> "5" [] d = 6 -> "6" [] d = 7 -> "7"
      [] d = 8 -> "8" [] d = 9 -> "9"

\* str.strip(): drop leading and trailing whitespace
RECURSIVE LStrip(_)
LStrip(s) == IF Len(s) > 0 /\ s[1] = " " THEN LStrip(Tail(s)) ELSE s

RECURSIVE RStrip(_)
RStrip(s) ==
    IF Len(s) > 0 /\ s[Len(s)] = " " THEN RStrip(SubSeq(s, 1, Len(s) - 1)) ELSE s

Strip(s) == RStrip(LStrip(s))

\* str.isdigit(): non-empty and every character a digit
IsDigit(s) == Len(s) > 0 /\ \A i \in 1..Len(s) : s[i] \in DigitChars

RECURSIVE DigitsValue(_, _)
DigitsValue(s, acc) ==
    IF Len(s) = 0 THEN acc ELSE DigitsValue(Tail(s), 10 * acc + DigitVal(s[1]))

\* int(text) for a text whose stripped form is all digits
PyInt(s) == DigitsValue(Strip(s), 0)

\* str(n) for n >= 0
RECURSIVE NatStr(_)
NatStr(n) == IF n < 10 THEN <<DigitChar(n)>> ELSE NatStr(n \div 10) \o <<DigitChar(n % 10)>>

\* str.split(sep)
RECURSIVE SplitFrom(_, _, _, _)
SplitFrom(s, sep, i, cur) ==
    IF i > Len(s) THEN <<cur>>
    ELSE IF s[i] = sep THEN <<cur>> \o SplitFrom(s, sep, i + 1, <<>>)
    ELSE SplitFrom(s, sep, i + 1, Append(cur, s[i]))

Split(s, sep) == SplitFrom(s, sep, 1, <<>>)

\* sep.join(parts)
RECURSIVE Join(_, _)
Join(parts, sep) ==
    IF Len(parts) = 0 THEN <<>>
    ELSE IF Len(parts) = 1 THEN parts[1]
    ELSE parts[1] \o sep \o Join(Tail(parts), sep)

\* ------------------------------------------------------------- json.loads
\* Documents over the alphabet digits, "[", "]", ",", " " (any other
\* character is a decode error).  A parse result is
\*   [ok, pos, kind, n, elems, nonint]
\* kind "int": the value n;  kind "list": elems are the integer elements,
\* nonint says that some element is itself a list.
RECURSIVE SkipWs(_, _)
SkipWs(s, i) == IF i <= Len(s) /\ s[i] = " " THEN SkipWs(s, i + 1) ELSE i

RECURSIVE ScanDigits(_, _)
ScanDigits(s, i) == IF i <= Len(s) /\ s[i] \in DigitChars THEN ScanDigits(s, i + 1) ELSE i

ParseFail == [ok |-> FALSE, pos |-> 0, kind |-> "", n |-> 0, elems |-> <<>>, nonint |-> FALSE]

RECURSIVE ParseValue(_, _)
RECURSIVE ParseItems(_, _, _, _)

ParseValue(s, i) ==
    IF i > Len(s) THEN ParseFail
    ELSE IF s[i] = "[" THEN
        LET j == SkipWs(s, i + 1) IN
        IF j <= Len(s) /\ s[j] = "]"
        THEN [ok |-> TRUE, pos |-> j + 1, kind |-> "list", n |-> 0,
              elems |-> <<>>, nonint |-> FALSE]
        ELSE ParseItems(s, j, <<>>, FALSE)
    ELSE IF s[i] = "0" THEN
        [ok |-> TRUE, pos |-> i + 1, kind |-> "int", n |-> 0,
         elems |-> <<>>, nonint |-> FALSE]
    ELSE IF s[i] \in DigitChars THEN
        LET e == ScanDigits(s, i) IN
        [ok |-> TRUE, pos |-> e, kind |-> "int",
         n |-> DigitsValue(SubSeq(s, i, e - 1), 0),
         elems |-> <<>>, nonint |-> FALSE]
    ELSE ParseFail

ParseItems(s, i, acc, nonint) ==
    LET v == ParseValue(s, i) IN
    IF ~v.ok THEN ParseFail
    ELSE
        LET k == SkipWs(s, v.pos)
            acc2 == IF v.kind = "int" THEN Append(acc, v.n) ELSE acc
            non2 == nonint \/ v.kind = "list"
        IN  IF k > Len(s) THEN ParseFail
            ELSE IF s[k] = "]"
            THEN [ok |-> TRUE, pos |-> k + 1, kind |-> "list", n |-> 0,
                  elems |-> acc2, nonint |-> non2]
            ELSE IF s[k] = "," THEN ParseItems(s, SkipWs(s, k + 1), acc2, non2)
            ELSE ParseFail

JsonLoads(s) ==
    LET v == ParseValue(s, SkipWs(s, 1)) IN
    IF v.ok /\ SkipWs(s, v.pos) > Len(s) THEN v ELSE ParseFail

\* json.dumps(list of ints): "[1, 2]"
JsonDumps(ids) ==
    <<"[">> \o Join([i \in 1..Len(ids) |-> NatStr(ids[i])], <<",", " ">>) \o <<"]">>


\* ------------------------------------------------------------------- state
\* Rows carry the columns the handlers read or write; created_at, which only
\* orders the listings, and the image path of a product are left out.
VARIABLES
    now,        \* datetime.utcnow(), in days
    users,      \* table users
    sessions,   \* table sessions
    products,   \* table products
    orders,     \* table orders
    inflight,   \* per worker thread: a create_user request between its SELECT and its commit
    resp        \* the answer to the request or bot message handled last

vars == <<now, users, sessions, products, orders, inflight, resp>>

Workers == 1..NumWorkers

U_admin == <<"a", "d", "m", "i", "n">>
U_bob == <<"b", "o", "b">>

\* --------------------------------------------------------------- responses
NoResp ==
    [op |-> "", status |-> 0, detail |-> "", set_cookie |-> None, id |-> None,
     is_admin |-> FALSE, body |-> {}]
Reply(op, status, detail) ==
    [NoResp EXCEPT !.op = op, !.status = status, !.detail = detail]
Ok(op) == Reply(op, 200, "ok")

\* --------------------------------------------------------------- passwords
Salts == {"s1"}

\* bcrypt.hashpw(pw, salt): the salt is kept in the hash
_hash_password(pw, salt) == [salt |-> salt, digest |-> <<salt, pw>>]

\* bcrypt.checkpw(pw, hash): hash again with the stored salt and compare
_verify_password(pw, pwHash) == _hash_password(pw, pwHash.salt) = pwHash

\* primary key of a new row (sqlite rowid: largest existing + 1)
NextId(rows) ==
    IF rows = {} THEN 1
    ELSE (CHOOSE m \in {r.id : r \in rows} : \A r \in rows : r.id <= m) + 1

\* ------------------------------------------------------------- environment
DefaultAdminUsername == U_admin
DefaultAdminPassword == "StrongPass!"
EnvPasswords == {"", DefaultAdminPassword, "Changed1"}

_ensure_initial_admin(us, desired_password, salt) ==
    IF desired_password = "" THEN us
    ELSE
        LET found == {u \in us : u.username = Some(DefaultAdminUsername)} IN
        IF found = {}
        THEN us \cup {[id |-> NextId(us), telegram_id |-> None,
                       username |-> Some(DefaultAdminUsername),
                       password_hash |-> Some(_hash_password(desired_password, salt)),
                       is_admin |-> TRUE]}
        ELSE
            LET admin == CHOOSE u \in found : TRUE
                rehash == IsNone(admin.password_hash)
                          \/ ~_verify_password(desired_password, admin.password_hash[1])
                fixed == [admin EXCEPT
                            !.is_admin = TRUE,
                            !.password_hash =
                                IF rehash THEN Some(_hash_password(desired_password, salt))
                                ELSE @]
            IN (us \ {admin}) \cup {fixed}

\* ---------------------------------------------------------------- sessions
\* uuid.uuid4().hex: a token no session row holds
uuid4(ss) == CHOOSE k \in 1..(Cardinality(ss) + 1) : \A s \in ss : s.token # k

_issue_session_renew(ss, user_id, t) ==
    {[s EXCEPT !.expires_at = IF s.user_id = user_id THEN t + SessionDays ELSE @] : s \in ss}
    \cup {[id |-> NextId(ss), user_id |-> user_id, token |-> uuid4(ss),
           expires_at |-> t + SessionDays]}

\* the sessions table after _issue_session; the token returned is uuid4(ss)
_issue_session(ss, user_id, t) ==
    ss \cup {[id |-> NextId(ss), user_id |-> user_id, token |-> uuid4(ss),
              expires_at |-> t + SessionDays]}

\* the user of the request's session cookie, or None
_user_from_request(cookie, ss, us, t) ==
    IF IsNone(cookie) THEN None
    ELSE
        LET live == {s \in ss : s.token = cookie[1] /\ s.expires_at > t} IN
        IF live = {} THEN None
        ELSE
            LET sess == CHOOSE s \in live : TRUE
                owner == {u \in us : u.id = sess.user_id}
            IN IF owner = {} THEN None ELSE Some(CHOOSE u \in owner : TRUE)

\* ------------------------------------------------------------- admin_check
ApiAdminPrefix == <<"api", "admin">>

PathStartsWith(path, prefix) ==
    Len(path) >= Len(prefix) /\ SubSeq(path, 1, Len(prefix)) = prefix

admin_check_any_user(path, cookie, ss, us, t) ==
    IF PathStartsWith(path, ApiAdminPrefix)
    THEN ~IsNone(_user_from_request(cookie, ss, us, t))
    ELSE TRUE

\* TRUE when the middleware hands the request on to call_next
admin_check(path, cookie, ss, us, t) ==
    IF PathStartsWith(path, ApiAdminPrefix)
    THEN LET user == _user_from_request(cookie, ss, us, t) IN
         ~IsNone(user) /\ user[1].is_admin
    ELSE TRUE

AccessDenied(op) == Reply(op, AccessDeniedStatus, "Access denied")

\* the cookie a request carries: none, or a token (MaxSessions + 1 is never issued)
Cookies == {None} \cup {Some(k) : k \in 1..(MaxSessions + 1)}

\* ------------------------------------------------------------------- login
LoginUsernames == {None, Some(<<" ">>), Some(<<" ">> \o U_admin \o <<" ">>), Some(U_bob)}
LoginPasswords == {None, Some(DefaultAdminPassword), Some("Changed1"), Some("Secret1")}
TelegramIds == {None, Some(123456789)}

LoginPayloads ==
    [username : LoginUsernames, password : LoginPasswords, telegram_id : TelegramIds]

login_authenticate_no_hash_ok(us, username, password) ==
    IF username = <<>> \/ password = "" THEN None
    ELSE
        LET found == {u \in us : u.username = Some(username)} IN
        IF found = {} THEN None
        ELSE LET user == CHOOSE u \in found : TRUE IN
             IF ~IsNone(user.password_hash)
                /\ ~_verify_password(password, user.password_hash[1])
             THEN None ELSE Some(user)

\* lines 271-279: the user a login authenticates as, or None (401)
login_authenticate(us, username, password) ==
    IF username = <<>> \/ password = "" THEN None
    ELSE
        LET found == {u \in us : u.username = Some(username)} IN
        IF found = {} THEN None
        ELSE LET user == CHOOSE u \in found : TRUE IN
             IF IsNone(user.password_hash)
                \/ ~_verify_password(password, user.password_hash[1])
             THEN None ELSE Some(user)

login_users_bootstrap(us, payload) ==
    IF us = {} /\ ~IsNone(payload.telegram_id) /\ OrElse(payload.password, "") # ""
    THEN {[id |-> 1, telegram_id |-> payload.telegram_id, username |-> payload.username,
           password_hash |-> Some(_hash_password(payload.password[1], "s1")),
           is_admin |-> TRUE]}
    ELSE us

\* the users table after a login request: the handler writes no user row
login_users(us, payload) == us

login_handler(us, ss, t, payload) ==
    LET username == Strip(OrElse(payload.username, <<>>))
        password == OrElse(payload.password, "")
        user == login_authenticate(us, username, password)
    IN  IF IsNone(user)
        THEN [resp |-> Reply("login", 401, "Invalid credentials"),
              users |-> login_users(us, payload), sessions |-> ss]
        ELSE [resp |-> [Ok("login") EXCEPT !.set_cookie = Some(uuid4(ss)),
                                           !.is_admin = user[1].is_admin],
              users |-> login_users(us, payload),
              sessions |-> _issue_session(ss, user[1].id, t)]

login ==
    \E payload \in LoginPayloads :
        LET r == login_handler(users, sessions, now, payload) IN
        /\ Cardinality(r.sessions) <= MaxSessions
        /\ users' = r.users
        /\ sessions' = r.sessions
        /\ resp' = r.resp
        /\ UNCHANGED <<now, products, orders, inflight>>

logout ==
    /\ resp' = Ok("logout")
    /\ UNCHANGED <<now, users, sessions, products, orders, inflight>>

me_handler(cookie, ss, us, t) ==
    LET user == _user_from_request(cookie, ss, us, t) IN
    IF IsNone(user) THEN Reply("me", 401, "Unauthorized")
    ELSE [Ok("me") EXCEPT !.id = Some(user[1].id), !.is_admin = user[1].is_admin]

me ==
    \E cookie \in Cookies :
        /\ resp' = me_handler(cookie, sessions, users, now)
        /\ UNCHANGED <<now, users, sessions, products, orders, inflight>>

\* the clock advances by a day
Tick ==
    /\ now < MaxTime
    /\ now' = now + 1
    /\ UNCHANGED <<users, sessions, products, orders, inflight, resp>>

\* ---------------------------------------------------------------- products
ProductNames == {"Lollipop"}
Prices == {5, 7}

upload_product_handler(cookie, ss, us, t, ps, name, price) ==
    IF ~admin_check(<<"api", "admin", "upload">>, cookie, ss, us, t)
    THEN [resp |-> AccessDenied("upload_product"), products |-> ps]
    ELSE [resp |-> [Ok("upload_product") EXCEPT !.id = Some(NextId(ps))],
          products |-> ps \cup {[id |-> NextId(ps), name |-> name, price |-> price,
                                 is_active |-> TRUE]}]

upload_product ==
    \E cookie \in Cookies, name \in ProductNames, price \in Prices :
        LET r == upload_product_handler(cookie, sessions, users, now, products, name, price) IN
        /\ Cardinality(r.products) <= MaxProducts
        /\ products' = r.products
        /\ resp' = r.resp
        /\ UNCHANGED <<now, users, sessions, orders, inflight>>

get_products ==
    /\ resp' = [Ok("get_products") EXCEPT !.body = {p.id : p \in {q \in products : q.is_active}}]
    /\ UNCHANGED <<now, users, sessions, products, orders, inflight>>

\* ------------------------------------------------------ JSON request values
JNull == [t |-> "null", n |-> 0, l |-> <<>>]
JInt(k) == [t |-> "int", n |-> k, l |-> <<>>]
JBool(k) == [t |-> "bool", n |-> k, l |-> <<>>]
JStr(length) == [t |-> "str", n |-> length, l |-> <<>>]
JList(elems) == [t |-> "list", n |-> 0, l |-> elems]

\* Python truth value of a decoded JSON value
Truthy(v) ==
    CASE v.t = "null" -> FALSE
      [] v.t = "list" -> Len(v.l) > 0
      [] OTHER -> v.n # 0

\* isinstance(i, int): bool is a subclass of int
IsInstanceInt(v) == v.t \in {"int", "bool"}

\* str(i) of an int or bool element
PyStr(v) ==
    IF v.t = "bool"
    THEN (IF v.n = 1 THEN <<"T", "r", "u", "e">> ELSE <<"F", "a", "l", "s", "e">>)
    ELSE NatStr(v.n)

RECURSIVE SumPrice(_)
SumPrice(ps) ==
    IF ps = {} THEN 0
    ELSE LET p == CHOOSE q \in ps : TRUE IN p.price + SumPrice(ps \ {p})

\* db.query(Product).filter(Product.id.in_(ids)).all()
ProductsIn(ps, ids) == {p \in ps : p.id \in Range(ids)}

RECURSIVE SumPerItem(_, _)
SumPerItem(ps, ids) ==
    IF Len(ids) = 0 THEN 0
    ELSE SumPrice({p \in ps : p.id = ids[1]}) + SumPerItem(ps, Tail(ids))

\* ------------------------------------------------------------ create_order
ItemsInputs ==
    {JNull, JList(<<>>), JInt(5), JStr(3),
     JList(<<JInt(1)>>), JList(<<JInt(1), JInt(1)>>), JList(<<JInt(2), JInt(1)>>),
     JList(<<JInt(9)>>), JList(<<JBool(1)>>), JList(<<JInt(1), JStr(1)>>)}

T_name == <<" ", "A", "n", "n", " ">>
T_address == <<"1", " ", "M", "a", "i", "n">>
T_phone == <<"5", "5", "5">>

\* the customer fields of a checkout: complete, and one of them missing or blank
CustomerInputs ==
    { [full_name |-> Some(T_name), address |-> Some(T_address), phone |-> Some(T_phone)],
      [full_name |-> None, address |-> Some(T_address), phone |-> Some(T_phone)],
      [full_name |-> Some(<<" ">>), address |-> Some(T_address), phone |-> Some(T_phone)],
      [full_name |-> Some(T_name), address |-> Some(<<>>), phone |-> Some(T_phone)],
      [full_name |-> Some(T_name), address |-> Some(T_address), phone |-> None] }

OrderUserIds == {Some(1)}

OrderPayloads == [items : ItemsInputs, customer : CustomerInputs, user_id : OrderUserIds]

\* line 232: payload.get("items") or []
create_order_items(payload) ==
    IF Truthy(payload.items) THEN payload.items ELSE JList(<<>>)

\* line 233
create_order_items_valid(items) ==
    items.t = "list" /\ \A i \in 1..Len(items.l) : IsInstanceInt(items.l[i])

create_order_total_per_item(ps, ids) == SumPerItem(ps, ids)

\* lines 244-247
create_order_total(ps, ids) == SumPrice(ProductsIn(ps, ids))

create_order_handler(ps, os, payload) ==
    LET items == create_order_items(payload)
        full_name == Strip(OrElse(payload.customer.full_name, <<>>))
        address == Strip(OrElse(payload.customer.address, <<>>))
        phone == Strip(OrElse(payload.customer.phone, <<>>))
        ids == [i \in 1..Len(items.l) |-> items.l[i].n]
    IN  IF ~create_order_items_valid(items)
        THEN [resp |-> Reply("create_order", 422, "Invalid items"), orders |-> os]
        ELSE IF full_name = <<>> \/ address = <<>> \/ phone = <<>>
        THEN [resp |-> Reply("create_order", 422, "Missing customer data"), orders |-> os]
        ELSE IF ProductsIn(ps, ids) = {}
        THEN [resp |-> Reply("create_order", 404, "Products not found"), orders |-> os]
        ELSE [resp |-> [Ok("create_order") EXCEPT !.id = Some(NextId(os))],
              orders |-> os \cup
                  {[id |-> NextId(os), user_id |-> payload.user_id,
                    items |-> Join([i \in 1..Len(items.l) |-> PyStr(items.l[i])], <<",">>),
                    total |-> create_order_total(ps, ids),
                    status |-> "pending",
                    full_name |-> Some(full_name), address |-> Some(address),
                    phone |-> Some(phone)]}]

create_order ==
    \E payload \in OrderPayloads :
        LET r == create_order_handler(products, orders, payload) IN
        /\ Cardinality(r.orders) <= MaxOrders
        /\ orders' = r.orders
        /\ resp' = r.resp
        /\ UNCHANGED <<now, users, sessions, products, inflight>>

\* ------------------------------------------------------ handle_web_app_data
\* the replies of the bot (Russian texts in the source, bot.py lines 42, 48, 62, 64)
MSG_UNRECOGNIZED == "could not recognise the products of the order"
MSG_NOT_FOUND == "products not found"
MSG_PLACED == "order placed"
MSG_ERROR == "an error occurred while placing the order"

ChatUsers == {501}
\* where the database raises: nowhere, in the products query, in the commit
DbFaults == {"none", "query", "commit"}

BotPayloads ==
    { <<"1">>, <<"0", "1">>, <<" ", "2">>, <<>>, <<"x">>,
      <<"1", ",", "2">>, <<"1", ",", "1">>, <<"2", ",", " ", "1">>, <<"1", ",", "x">>,
      <<"9", ",", "8">>, <<",">>,
      <<"[", "1", ",", "2", "]">>, <<"[", "1", ",", " ", "1", "]">>, <<"[", "2", "]">>,
      <<"[", "9", "]">>, <<"[", "]">>, <<"[", "[", "1", "]", "]">>, <<"[", "1", ",">> }

IsDigitStripped(x) == IsDigit(Strip(x))

\* lines 29-40: the product ids of a payload; exc when the code raises
parse_product_ids(raw) ==
    LET data == JsonLoads(raw) IN
    IF data.ok
    THEN IF data.kind = "int" \/ data.nonint
         THEN [exc |-> TRUE, ids |-> <<>>]
         ELSE [exc |-> FALSE, ids |-> data.elems]
    ELSE IF "," \in Range(raw)
    THEN LET parts == SelectSeq(Split(raw, ","), IsDigitStripped) IN
         [exc |-> FALSE, ids |-> [i \in 1..Len(parts) |-> PyInt(parts[i])]]
    ELSE [exc |-> FALSE, ids |-> IF IsDigit(Strip(raw)) THEN <<PyInt(raw)>> ELSE <<>>]

\* lines 46-50
bot_order_total(ps, ids) == SumPrice(ProductsIn(ps, ids))

bot_outcome_persist_first(raw, fault, ps) ==
    LET parsed == parse_product_ids(raw) IN
    IF parsed.exc THEN [msg |-> MSG_ERROR, persist |-> FALSE]
    ELSE IF Len(parsed.ids) = 0 THEN [msg |-> MSG_UNRECOGNIZED, persist |-> FALSE]
    ELSE IF fault = "query" THEN [msg |-> MSG_ERROR, persist |-> FALSE]
    ELSE IF ProductsIn(ps, parsed.ids) = {} THEN [msg |-> MSG_NOT_FOUND, persist |-> TRUE]
    ELSE IF fault = "commit" THEN [msg |-> MSG_ERROR, persist |-> FALSE]
    ELSE [msg |-> MSG_PLACED, persist |-> TRUE]

\* the reply of the handler and whether it commits an order row
bot_outcome(raw, fault, ps) ==
    LET parsed == parse_product_ids(raw) IN
    IF parsed.exc THEN [msg |-> MSG_ERROR, persist |-> FALSE]
    ELSE IF Len(parsed.ids) = 0 THEN [msg |-> MSG_UNRECOGNIZED, persist |-> FALSE]
    ELSE IF fault = "query" THEN [msg |-> MSG_ERROR, persist |-> FALSE]
    ELSE IF ProductsIn(ps, parsed.ids) = {} THEN [msg |-> MSG_NOT_FOUND, persist |-> FALSE]
    ELSE IF fault = "commit" THEN [msg |-> MSG_ERROR, persist |-> FALSE]
    ELSE [msg |-> MSG_PLACED, persist |-> TRUE]

web_app_data_handler(ps, os, raw, from_user, fault) ==
    LET r == bot_outcome(raw, fault, ps)
        ids == parse_product_ids(raw).ids
    IN  IF r.persist
        THEN [resp |-> [Reply("web_app_data", 0, r.msg) EXCEPT !.id = Some(NextId(os))],
              orders |-> os \cup
                  {[id |-> NextId(os), user_id |-> Some(from_user),
                    items |-> JsonDumps(ids),
                    total |-> bot_order_total(ps, ids),
                    status |-> "pending",
                    full_name |-> None, address |-> None, phone |-> None]}]
        ELSE [resp |-> Reply("web_app_data", 0, r.msg), orders |-> os]

handle_web_app_data ==
    \E raw \in BotPayloads, from_user \in ChatUsers, fault \in DbFaults :
        LET r == web_app_data_handler(products, orders, raw, from_user, fault) IN
        /\ Cardinality(r.orders) <= MaxOrders
        /\ orders' = r.orders
        /\ resp' = r.resp
        /\ UNCHANGED <<now, users, sessions, products, inflight>>

\* ------------------------------------------------------------ admin: orders
OrderIds == 1..(MaxOrders + 1)
Statuses == {"pending", "shipped"}

get_orders_handler(cookie, ss, us, t, os) ==
    IF admin_check(<<"api", "admin", "orders">>, cookie, ss, us, t)
    THEN [Ok("get_orders") EXCEPT !.body = {o.id : o \in os}]
    ELSE AccessDenied("get_orders")

get_orders ==
    \E cookie \in Cookies :
        /\ resp' = get_orders_handler(cookie, sessions, users, now, orders)
        /\ UNCHANGED <<now, users, sessions, products, orders, inflight>>

update_status_rows_upsert(os, order_id, status) ==
    IF \E o \in os : o.id = order_id
    THEN [code |-> 200,
          orders |-> {IF o.id = order_id THEN [o EXCEPT !.status = status] ELSE o : o \in os}]
    ELSE [code |-> 404,
          orders |-> os \cup {[id |-> order_id, user_id |-> None, items |-> <<>>,
                               total |-> 0, status |-> status,
                               full_name |-> None, address |-> None, phone |-> None]}]

\* lines 205-210: the status code and the orders table after the handler body
update_status_rows(os, order_id, status) ==
    IF \E o \in os : o.id = order_id
    THEN [code |-> 200,
          orders |-> {IF o.id = order_id THEN [o EXCEPT !.status = status] ELSE o : o \in os}]
    ELSE [code |-> 404, orders |-> os]

update_status_handler(cookie, ss, us, t, os, order_id, status) ==
    IF ~admin_check(<<"api", "admin", "orders", "update_status">>, cookie, ss, us, t)
    THEN [resp |-> AccessDenied("update_status"), orders |-> os]
    ELSE LET r == update_status_rows(os, order_id, status) IN
         [resp |-> IF r.code = 200 THEN [Ok("update_status") EXCEPT !.id = Some(order_id)]
                   ELSE Reply("update_status", 404, "Order not found"),
          orders |-> r.orders]

update_status ==
    \E cookie \in Cookies, order_id \in OrderIds, status \in Statuses :
        LET r == update_status_handler(cookie, sessions, users, now, orders, order_id, status) IN
        /\ orders' = r.orders
        /\ resp' = r.resp
        /\ UNCHANGED <<now, users, sessions, products, inflight>>

\* lines 215-220
delete_order_rows(os, order_id) ==
    IF \E o \in os : o.id = order_id
    THEN [code |-> 200, orders |-> {o \in os : o.id # order_id}]
    ELSE [code |-> 404, orders |-> os]

delete_order_handler(cookie, ss, us, t, os, order_id) ==
    IF ~admin_check(<<"api", "admin", "orders", "{order_id}">>, cookie, ss, us, t)
    THEN [resp |-> AccessDenied("delete_order"), orders |-> os]
    ELSE LET r == delete_order_rows(os, order_id) IN
         [resp |-> IF r.code = 200 THEN [Ok("delete_order") EXCEPT !.id = Some(order_id)]
                   ELSE Reply("delete_order", 404, "Order not found"),
          orders |-> r.orders]

delete_order ==
    \E cookie \in Cookies, order_id \in OrderIds :
        LET r == delete_order_handler(cookie, sessions, users, now, orders, order_id) IN
        /\ orders' = r.orders
        /\ resp' = r.resp
        /\ UNCHANGED <<now, users, sessions, products, inflight>>

my_orders ==
    \E cookie \in Cookies :
        LET user == _user_from_request(cookie, sessions, users, now) IN
        /\ resp' = IF IsNone(user) THEN Reply("my_orders", 401, "Unauthorized")
                   ELSE [Ok("my_orders") EXCEPT
                            !.body = {o.id : o \in {x \in orders :
                                                      x.user_id = Some(user[1].id)}}]
        /\ UNCHANGED <<now, users, sessions, products, orders, inflight>>

\* ------------------------------------------------------------- admin: users
Idle == [pc |-> "idle", username |-> <<>>, password |-> "", is_admin |-> FALSE]

list_users_handler(cookie, ss, us, t) ==
    IF admin_check(<<"api", "admin", "users">>, cookie, ss, us, t)
    THEN [Ok("list_users") EXCEPT !.body = {u.id : u \in us}]
    ELSE AccessDenied("list_users")

list_users ==
    \E cookie \in Cookies :
        /\ resp' = list_users_handler(cookie, sessions, users, now)
        /\ UNCHANGED <<now, users, sessions, products, orders, inflight>>

NewPassword == "Secret1"

UserPayloads ==
    { [username |-> None, password |-> Some(NewPassword), is_admin |-> FALSE],
      [username |-> Some(<<" ">>), password |-> Some(NewPassword), is_admin |-> FALSE],
      [username |-> Some(U_bob), password |-> None, is_admin |-> FALSE],
      [username |-> Some(<<" ">> \o U_bob), password |-> Some(NewPassword), is_admin |-> FALSE],
      [username |-> Some(U_bob), password |-> Some(NewPassword), is_admin |-> TRUE],
      [username |-> Some(U_admin), password |-> Some(NewPassword), is_admin |-> FALSE] }

\* lines 334-347 behind the middleware: validation and the SELECT for a user of
\* that name.  next is the request as it goes on to the INSERT, or Idle when
\* the handler has answered.
create_user_select_handler(cookie, ss, us, t, payload) ==
    LET username == Strip(OrElse(payload.username, <<>>))
        password == OrElse(payload.password, "")
    IN  IF ~admin_check(<<"api", "admin", "users">>, cookie, ss, us, t)
        THEN [resp |-> AccessDenied("create_user"), next |-> Idle]
        ELSE IF username = <<>>
        THEN [resp |-> Reply("create_user", 422, "username required"), next |-> Idle]
        ELSE IF password = ""
        THEN [resp |-> Reply("create_user", 422, "password required"), next |-> Idle]
        ELSE IF \E u \in us : u.username = Some(username)
        THEN [resp |-> Reply("create_user", 409, "username already exists"), next |-> Idle]
        ELSE [resp |-> NoResp,
              next |-> [pc |-> "selected", username |-> username, password |-> password,
                        is_admin |-> payload.is_admin]]

create_user_select ==
    \E w \in Workers, cookie \in Cookies, payload \in UserPayloads :
        LET r == create_user_select_handler(cookie, sessions, users, now, payload) IN
        /\ inflight[w].pc = "idle"
        /\ inflight' = [inflight EXCEPT ![w] = r.next]
        /\ resp' = r.resp
        /\ UNCHANGED <<now, users, sessions, products, orders>>

\* lines 349-366: INSERT and commit.  users.username is UNIQUE (models.py line 11):
\* the INSERT of a name stored since the SELECT raises IntegrityError, which the
\* handler does not catch, and the request is answered 500.
create_user_commit_handler(us, r, salt) ==
    IF \E u \in us : u.username = Some(r.username)
    THEN [resp |-> Reply("create_user", 500, "Internal Server Error"), users |-> us]
    ELSE [resp |-> [Ok("create_user") EXCEPT !.id = Some(NextId(us)),
                                            !.is_admin = r.is_admin],
          users |-> us \cup
              {[id |-> NextId(us), telegram_id |-> None, username |-> Some(r.username),
                password_hash |-> Some(_hash_password(r.password, salt)),
                is_admin |-> r.is_admin]}]

create_user_commit ==
    \E w \in Workers, salt \in Salts :
        LET r == create_user_commit_handler(users, inflight[w], salt) IN
        /\ inflight[w].pc = "selected"
        /\ inflight' = [inflight EXCEPT ![w] = Idle]
        /\ users' = r.users
        /\ resp' = r.resp
        /\ UNCHANGED <<now, sessions, products, orders>>

\* a path under /api/admin that no route serves
unknown_admin_path_handler(cookie, ss, us, t) ==
    IF admin_check(<<"api", "admin", "settings">>, cookie, ss, us, t)
    THEN Reply("unknown_admin_path", 404, "Not Found")
    ELSE AccessDenied("unknown_admin_path")

unknown_admin_path ==
    \E cookie \in Cookies :
        /\ resp' = unknown_admin_path_handler(cookie, sessions, users, now)
        /\ UNCHANGED <<now, users, sessions, products, orders, inflight>>

\* the process starts again on the same database file; requests in flight are lost
Restart ==
    \E desired_password \in EnvPasswords, salt \in Salts :
        /\ users' = _ensure_initial_admin(users, desired_password, salt)
        /\ inflight' = [w \in Workers |-> Idle]
        /\ resp' = NoResp
        /\ UNCHANGED <<now, sessions, products, orders>>

\* ------------------------------------------------------------------ start
\* What the database file can hold when the process starts on it:
\*   EmptyDb   a new file;
\*   LegacyDb  a chat-platform user row with neither password nor admin flag;
\*   UsedDb    the file of a shop in use, as the handlers below leave it after
\*             the admin logged in, created user bob, uploaded a product and
\*             the bot took an order for it.
NoTables == [users |-> {}, sessions |-> {}, products |-> {}, orders |-> {}]

EmptyDb == NoTables

LegacyDb ==
    [NoTables EXCEPT !.users =
        {[id |-> 1, telegram_id |-> Some(123456789), username |-> Some(U_admin),
          password_hash |-> None, is_admin |-> FALSE]}]

UsedDb ==
    [users |->
        {[id |-> 1, telegram_id |-> None, username |-> Some(U_admin),
          password_hash |-> Some(_hash_password(DefaultAdminPassword, "s1")),
          is_admin |-> TRUE],
         [id |-> 2, telegram_id |-> None, username |-> Some(U_bob),
          password_hash |-> Some(_hash_password(NewPassword, "s1")),
          is_admin |-> FALSE]},
     sessions |-> {[id |-> 1, user_id |-> 1, token |-> 1, expires_at |-> SessionDays]},
     products |-> {[id |-> 1, name |-> "Lollipop", price |-> 5, is_active |-> TRUE]},
     orders |->
        {[id |-> 1, user_id |-> Some(501), items |-> <<"[", "1", "]">>, total |-> 5,
          status |-> "pending", full_name |-> None, address |-> None, phone |-> None]}]

PriorDbs == {EmptyDb, LegacyDb, UsedDb}

Start(dbs, passwords) ==
    /\ now = 0
    /\ \E prior \in dbs, desired_password \in passwords, salt \in Salts :
        /\ users = _ensure_initial_admin(prior.users, desired_password, salt)
        /\ sessions = prior.sessions
        /\ products = prior.products
        /\ orders = prior.orders
    /\ inflight = [w \in Workers |-> Idle]
    /\ resp = NoResp

\* a start on any of the database files, under any configured password
Init == Start(PriorDbs, EnvPasswords)

\* the first start on a new database file with the default environment
InitDefault == Start({EmptyDb}, {DefaultAdminPassword})

\* a later start of the shop in use, with the default environment
InitUsed == Start({UsedDb}, {DefaultAdminPassword})

\* ------------------------------------------------------------ specifications
\* every operation
Next ==
    \/ login
    \/ logout
    \/ me
    \/ Tick
    \/ Restart
    \/ upload_product
    \/ get_products
    \/ create_order
    \/ handle_web_app_data
    \/ get_orders
    \/ update_status
    \/ delete_order
    \/ my_orders
    \/ list_users
    \/ create_user_select
    \/ create_user_commit
    \/ unknown_admin_path

Spec == Init /\ [][Next]_vars

\* sessions and their expiry
NextSession == login \/ logout \/ me \/ Tick

SpecSession == Init /\ [][NextSession]_vars

\* the admin routes behind the middleware, as the sessions age
NextGate ==
    \/ login
    \/ Tick
    \/ get_orders
    \/ update_status
    \/ delete_order
    \/ list_users
    \/ unknown_admin_path

SpecGate == InitUsed /\ [][NextGate]_vars

\* user management, with concurrent create_user requests
NextUsers ==
    \/ login
    \/ Restart
    \/ create_user_select
    \/ create_user_commit

SpecUsers == Init /\ [][NextUsers]_vars

\* checkout over HTTP
NextCheckout == login \/ upload_product \/ get_products \/ create_order

SpecCheckout == InitDefault /\ [][NextCheckout]_vars

\* the administration of orders
NextOrderAdmin == login \/ create_order \/ update_status \/ delete_order \/ my_orders

SpecOrderAdmin == InitUsed /\ [][NextOrderAdmin]_vars

\* orders placed through the bot
NextBot == login \/ upload_product \/ handle_web_app_data

SpecBot == InitDefault /\ [][NextBot]_vars

\* every operation, from the first start on a new database file
SpecFresh == InitDefault /\ [][Next]_vars

\* UsedDb is a state the operations reach from a new database file: TLC refutes
\* this invariant under SpecFresh with the behaviour that builds UsedDb
UsedDbUnreachable ==
    ~(/\ users = UsedDb.users
      /\ sessions = UsedDb.sessions
      /\ products = UsedDb.products
      /\ orders = UsedDb.orders
      /\ now = 0)

\* ------------------------------------------------------------------ claims
\* the session of a cookie is live and its user has the admin flag
ValidAdminSession(cookie) ==
    /\ ~IsNone(cookie)
    /\ \E s \in sessions :
        /\ s.token = cookie[1]
        /\ now < s.expires_at
        /\ \E u \in users : u.id = s.user_id /\ u.is_admin

\* the sum, over the distinct ids of a request, of the price stored under the id
RECURSIVE PriceOfIds(_, _)
PriceOfIds(ps, idSet) ==
    IF idSet = {} THEN 0
    ELSE LET k == CHOOSE x \in idSet : TRUE
             hit == {p \in ps : p.id = k}
         IN (IF hit = {} THEN 0 ELSE (CHOOSE p \in hit : TRUE).price)
            + PriceOfIds(ps, idSet \ {k})

\* C1: every order created by create_order or by the bot handler stores as total
\* the sum of the prices, at creation, of the distinct stored products whose id
\* is in the requested item list: a repeated id counts once, an id of no product
\* counts nothing.
C1_TotalOfDistinctProducts ==
    /\ \A payload \in OrderPayloads :
        LET r == create_order_handler(products, orders, payload) IN
        \A o \in r.orders \ orders :
            o.total = PriceOfIds(products, {payload.items.l[i].n : i \in 1..Len(payload.items.l)})
    /\ \A raw \in BotPayloads, from_user \in ChatUsers, fault \in DbFaults :
        LET r == web_app_data_handler(products, orders, raw, from_user, fault) IN
        \A o \in r.orders \ orders :
            o.total = PriceOfIds(products, Range(JsonLoads(o.items).elems))

\* an order for "1,1" stores the price of product 1 once
C1_Witness ==
    \E o \in orders, p \in products :
        /\ o.items = <<"1", ",", "1">>
        /\ p.id = 1
        /\ o.total = p.price
        /\ resp.op = "create_order"

\* items that the claim calls invalid: empty, not a list, or with an element
\* that is not a JSON integer
BadItems(v) ==
    \/ v.t # "list"
    \/ Len(v.l) = 0
    \/ \E i \in 1..Len(v.l) : v.l[i].t # "int"

CustomerComplete(c) ==
    /\ Strip(OrElse(c.full_name, <<>>)) # <<>>
    /\ Strip(OrElse(c.address, <<>>)) # <<>>
    /\ Strip(OrElse(c.phone, <<>>)) # <<>>

\* C2: POST /api/orders answers 422 and stores no order whenever items is empty,
\* not a list or holds a non-integer, also when the customer fields are complete.
C2_InvalidItemsAre422 ==
    \A payload \in OrderPayloads :
        (BadItems(payload.items) /\ CustomerComplete(payload.customer)) =>
            LET r == create_order_handler(products, orders, payload) IN
            r.resp.status = 422 /\ r.orders = orders

\* C3: a request under /api/admin without the live session of an admin is
\* answered 403 "Access denied" on every route, and the handler does not run:
\* no product, order or user row changes and no create_user goes on to its INSERT.
C3_AdminRoutesDenied ==
    \A cookie \in Cookies :
        ~ValidAdminSession(cookie) =>
            /\ get_orders_handler(cookie, sessions, users, now, orders)
                   = AccessDenied("get_orders")
            /\ list_users_handler(cookie, sessions, users, now) = AccessDenied("list_users")
            /\ unknown_admin_path_handler(cookie, sessions, users, now)
                   = AccessDenied("unknown_admin_path")
            /\ \A order_id \in OrderIds, status \in Statuses :
                update_status_handler(cookie, sessions, users, now, orders, order_id, status)
                    = [resp |-> AccessDenied("update_status"), orders |-> orders]
            /\ \A order_id \in OrderIds :
                delete_order_handler(cookie, sessions, users, now, orders, order_id)
                    = [resp |-> AccessDenied("delete_order"), orders |-> orders]
            /\ \A name \in ProductNames, price \in Prices :
                upload_product_handler(cookie, sessions, users, now, products, name, price)
                    = [resp |-> AccessDenied("upload_product"), products |-> products]
            /\ \A payload \in UserPayloads :
                create_user_select_handler(cookie, sessions, users, now, payload)
                    = [resp |-> AccessDenied("create_user"), next |-> Idle]

\* a delete_order was denied while an order is stored, one session has expired
\* and a user without the admin flag holds a live one
C3_Witness ==
    /\ resp = AccessDenied("delete_order")
    /\ orders # {}
    /\ \E s \in sessions : s.expires_at <= now
    /\ \E s \in sessions, u \in users :
        s.expires_at > now /\ u.id = s.user_id /\ ~u.is_admin

\* the token of a stored session whose expiry is reached
Expired(cookie) ==
    /\ ~IsNone(cookie)
    /\ \E s \in sessions : s.token = cookie[1]
    /\ \A s \in sessions : s.token = cookie[1] => s.expires_at <= now

\* C4: a session is issued with expiry now + 7 days, and a token whose expiry is
\* reached resolves to no user after any further step (no step renews a session).
C4_ExpiredNeverResolves ==
    [][ /\ \A s \in sessions' \ sessions : s.expires_at = now + SessionDays
        /\ \A cookie \in Cookies :
            Expired(cookie) => IsNone(_user_from_request(cookie, sessions', users', now'))
      ]_vars

\* a user holds an expired session and a live one, and a request was answered 401
C4_Witness ==
    /\ \E s1 \in sessions, s2 \in sessions :
        s1.user_id = s2.user_id /\ s1.expires_at <= now /\ s2.expires_at > now
    /\ resp = Reply("me", 401, "Unauthorized")

\* a login that carries an external identifier and a password
BootstrapAttempt(payload) ==
    ~IsNone(payload.telegram_id) /\ OrElse(payload.password, "") # ""

C6_MissingOrderIs404 ==
    \A cookie \in Cookies, order_id \in OrderIds :
        (ValidAdminSession(cookie) /\ \A o \in orders : o.id # order_id) =>
            /\ delete_order_handler(cookie, sessions, users, now, orders, order_id)
                   = [resp |-> Reply("delete_order", 404, "Order not found"),
                      orders |-> orders]
            /\ \A status \in Statuses :
                update_status_handler(cookie, sessions, users, now, orders, order_id, status)
                    = [resp |-> Reply("update_status", 404, "Order not found"),
                       orders |-> orders]

\* an update_status for a missing id was answered 404 while an order is stored
C6_Witness ==
    /\ resp = Reply("update_status", 404, "Order not found")
    /\ orders # {}

\* the ways a login fails, as the claim lists them
LoginFails(payload) ==
    LET username == Strip(OrElse(payload.username, <<>>))
        password == OrElse(payload.password, "")
    IN  \/ username = <<>>
        \/ password = ""
        \/ \A u \in users : u.username # Some(username)
        \/ \E u \in users :
            /\ u.username = Some(username)
            /\ \/ IsNone(u.password_hash)
               \/ u.password_hash[1].digest # <<u.password_hash[1].salt, password>>

\* C7: every failed login is answered 401 "Invalid credentials" with no session
\* row and no cookie; a session row and a cookie come only with a stored
\* username whose password verifies.
C7_FailedLoginIsUniform401 ==
    \A payload \in LoginPayloads :
        LET r == login_handler(users, sessions, now, payload) IN
        IF LoginFails(payload)
        THEN /\ r.resp = Reply("login", 401, "Invalid credentials")
             /\ r.sessions = sessions
        ELSE /\ r.resp.status = 200
             /\ ~IsNone(r.resp.set_cookie)
             /\ Cardinality(r.sessions \ sessions) = 1

\* a login was refused while a user without password hash is stored
C7_Witness ==
    /\ resp = Reply("login", 401, "Invalid credentials")
    /\ \E u \in users : IsNone(u.password_hash)
    /\ sessions = {}

\* C8: no two users share a username, and a create_user for a username that is
\* taken is answered 409 and creates no user, also when the name was taken by a
\* concurrent request after this one's SELECT.
C8_DuplicateUsernameIs409 ==
    /\ \A u \in users, v \in users : u.username = v.username => u = v
    /\ \A w \in Workers, salt \in Salts :
        (/\ inflight[w].pc = "selected"
         /\ \E u \in users : u.username = Some(inflight[w].username)) =>
            LET r == create_user_commit_handler(users, inflight[w], salt) IN
            r.resp.status = 409 /\ r.users = users

\* the three payload formats, each naming product 1
BotFormats ==
    { <<"1">>, <<"1", ",", "2">>, <<"[", "1", ",", "2", "]">> }

\* C9: for each of the three payload formats, when an id resolves, the bot
\* handler stores exactly one order: pending, owned by the chat user, without
\* customer fields.
C9_ThreeFormatsAccepted ==
    \A raw \in BotFormats, from_user \in ChatUsers :
        (\E p \in products : p.id = 1) =>
            LET r == web_app_data_handler(products, orders, raw, from_user, "none") IN
            /\ Cardinality(r.orders \ orders) = 1
            /\ \A o \in r.orders \ orders :
                /\ o.status = "pending"
                /\ o.user_id = Some(from_user)
                /\ IsNone(o.full_name) /\ IsNone(o.address) /\ IsNone(o.phone)

====
